---------------------------- MODULE Spec2Model ----------------------------
(***************************************************************************)
(* Model of the LDR luminosity agent: the console program sensor_ldr.cpp   *)
(* and the UDP client clienteUDP_sensor_ldr.cpp.  Both define the class    *)
(* SensorLDR (lerValor, lerLuminosidadePercentual) and a main loop that    *)
(* samples, converts and prints / sends once per cycle.                    *)
(*                                                                         *)
(* Floating point is modelled with integers that fit TLC's 32-bit range:   *)
(* a positive float is a 24-bit significand m and an exponent e, its value *)
(* m * 2^(e-23); a logarithm is a fixed-point number with 20 fractional    *)
(* bits.  The logarithm is taken in base 2: the code only compares         *)
(* logarithms and divides one difference of logarithms by another, and     *)
(* both are the same in every base.                                        *)
(***************************************************************************)
EXTENDS Integers, Sequences, FiniteSets

(* ------------------------- program constants -------------------------- *)

\* const float ADC_MAX = 4095.0
ADC_MAX == 4095
\* const float R_FIXO = 10000.0
R_FIXO == 10000
\* float R_CLARO = 146*1e3
R_CLARO_INIT == 146000
\* float R_ESCURO = 5*1e6
R_ESCURO_INIT == 5000000
\* return -1 of main on a startup failure
EXIT_FAILURE_STATUS == -1

(* ------------------------------ bounds -------------------------------- *)

\* How far below 0 and above ADC_MAX the content of the ADC file may lie.
RawSlack == 2

\* A second value of the fields R_CLARO and R_ESCURO, explored by ConvSpec
\* beside the built-in one: the only way for a sample's resistance to equal a
\* reference exactly (no sample does with 146000 and 5000000).  Sample 273
\* has resistance 140000 and sample 9 has resistance 4540000.
R_CLARO_ALT == (R_FIXO * (ADC_MAX - 273)) \div 273
R_ESCURO_ALT == (R_FIXO * (ADC_MAX - 9)) \div 9

(* ------------------------- float arithmetic --------------------------- *)

\* The binary exponent of n/d for n >= d > 0 and the divisor scaled by it:
\* <<e, D>> with D = d*2^e <= n < 2*D.
RECURSIVE F32Exp(_, _, _)
F32Exp(n, D, e) == IF 2 * D <= n THEN F32Exp(n, 2 * D, e + 1) ELSE <<e, D>>

\* k more quotient bits of rem/D by shift and subtract: <<quotient, remainder>>.
RECURSIVE LongDiv(_, _, _, _)
LongDiv(rem, D, m, k) ==
    IF k = 0 THEN <<m, rem>>
    ELSE LET r2 == 2 * rem
         IN  IF r2 >= D THEN LongDiv(r2 - D, D, 2 * m + 1, k - 1)
                        ELSE LongDiv(r2, D, 2 * m, k - 1)

\* n/d for n >= d > 0 rounded to a float (24-bit significand, round to
\* nearest, ties to even).
F32Div(n, d) ==
    LET eD   == F32Exp(n, d, 0)
        q    == LongDiv(n - eD[2], eD[2], 1, 24)
        base == q[1] \div 2
        up   == ((q[1] % 2) = 1) /\ (q[2] # 0 \/ (base % 2) = 1)
        m    == IF up THEN base + 1 ELSE base
    IN  IF m = 16777216 THEN [cls |-> "pos", m |-> 8388608, e |-> eD[1] + 1]
                        ELSE [cls |-> "pos", m |-> m, e |-> eD[1]]

\* FDiv on a target where a division by zero does not give an infinity.
FDivZeroIsNaN(num, den) ==
    IF den = 0 THEN [cls |-> "nan", m |-> 0, e |-> 0]
    ELSE IF num = 0 THEN [cls |-> "zero", m |-> 0, e |-> 0]
    ELSE IF (num < 0) # (den < 0) THEN [cls |-> "neg", m |-> 0, e |-> 0]
    ELSE IF num < 0 THEN F32Div(-num, -den)
    ELSE F32Div(num, den)

\* The float num/den of two floats holding the integers num and den, as the
\* code divides them: x/0 is +infinity for x > 0, 0/x is zero, and a
\* quotient of operands of opposite sign is negative.
FDiv(num, den) ==
    IF den = 0 THEN [cls |-> IF num > 0 THEN "inf" ELSE "nan", m |-> 0, e |-> 0]
    ELSE IF num = 0 THEN [cls |-> "zero", m |-> 0, e |-> 0]
    ELSE IF (num < 0) # (den < 0) THEN [cls |-> "neg", m |-> 0, e |-> 0]
    ELSE IF num < 0 THEN F32Div(-num, -den)
    ELSE F32Div(num, den)

\* The product a*b of two fixed-point numbers with 28 fractional bits, both
\* below 2 (so below 2^29), computed in 14-bit halves to stay in 32 bits.
MulQ28(a, b) ==
    LET ah == a \div 16384
        al == a % 16384
        bh == b \div 16384
        bl == b % 16384
    IN  ah * bh + (ah * bl + al * bh) \div 16384

\* The fraction bits of log2(x) for x in [1,2) with 28 fractional bits:
\* square, and emit a 1 and halve whenever the square reaches 2 (2^29).
RECURSIVE Log2Frac(_, _, _)
Log2Frac(x, acc, k) ==
    IF k = 0 THEN acc
    ELSE LET s == MulQ28(x, x)
         IN  IF s >= 536870912 THEN Log2Frac(s \div 2, 2 * acc + 1, k - 1)
                              ELSE Log2Frac(s, 2 * acc, k - 1)

\* log(x) of a float: a finite value for x > 0 (in units of 2^-20),
\* +infinity for +infinity, -infinity for zero, NaN for a negative x.
log(x) ==
    CASE x.cls = "pos"  -> [cls |-> "fin",
                            q |-> x.e * 1048576 + Log2Frac(32 * x.m, 0, 20)]
      [] x.cls = "inf"  -> [cls |-> "pinf", q |-> 0]
      [] x.cls = "zero" -> [cls |-> "ninf", q |-> 0]
      [] OTHER          -> [cls |-> "nan", q |-> 0]

\* a > b on floats: false whenever an operand is NaN.
FGt(a, b) ==
    CASE a.cls = "nan" \/ b.cls = "nan" -> FALSE
      [] a.cls = "pinf" -> b.cls # "pinf"
      [] a.cls = "ninf" -> FALSE
      [] OTHER -> IF b.cls = "fin" THEN a.q > b.q ELSE b.cls = "ninf"

\* a < b on floats.
FLt(a, b) == FGt(b, a)

\* static_cast<int> of a NaN float is undefined: the conversion instruction
\* gives INT_MIN on x86 (cvttss2si) and 0 on ARM (vcvt).
NaNCastResults == {-2147483647 - 1, 0}

(* --------------------------- the conversion --------------------------- *)

\* float r_ldr = R_FIXO * (ADC_MAX - valor) / valor.  The product is exact in
\* a float: 10000*k = 16*(625*k) and 625*k < 2^24 for every k the model uses.
Resistencia(raw) == FDiv(R_FIXO * (ADC_MAX - raw), raw)

\* Percentual without the 0% clamp.
PercentualNoDarkClamp(raw, rClaro, rEscuro) ==
    LET log_r_ldr    == log(Resistencia(raw))
        log_r_claro  == log(FDiv(rClaro, 1))
        log_r_escuro == log(FDiv(rEscuro, 1))
    IN  IF FLt(log_r_ldr, log_r_claro) THEN {100}
        ELSE IF log_r_ldr.cls # "fin" THEN NaNCastResults
        ELSE {0 - ((100 * (log_r_ldr.q - log_r_escuro.q))
                      \div (log_r_escuro.q - log_r_claro.q))}

\* Percentual without the 100% clamp.
PercentualNoLightClamp(raw, rClaro, rEscuro) ==
    LET log_r_ldr    == log(Resistencia(raw))
        log_r_claro  == log(FDiv(rClaro, 1))
        log_r_escuro == log(FDiv(rEscuro, 1))
    IN  IF FGt(log_r_ldr, log_r_escuro) THEN {0}
        ELSE IF log_r_ldr.cls # "fin" THEN NaNCastResults
        ELSE {(100 * (log_r_escuro.q - log_r_ldr.q))
                  \div (log_r_escuro.q - log_r_claro.q)}

\* Percentual interpolating from the wrong reference: the distance to
\* log(R_CLARO) in place of the distance to log(R_ESCURO).
PercentualSwapped(raw, rClaro, rEscuro) ==
    LET log_r_ldr    == log(Resistencia(raw))
        log_r_claro  == log(FDiv(rClaro, 1))
        log_r_escuro == log(FDiv(rEscuro, 1))
    IN  IF FGt(log_r_ldr, log_r_escuro) THEN {0}
        ELSE IF FLt(log_r_ldr, log_r_claro) THEN {100}
        ELSE IF log_r_ldr.cls = "nan" THEN NaNCastResults
        ELSE {(100 * (log_r_ldr.q - log_r_claro.q))
                  \div (log_r_escuro.q - log_r_claro.q)}

\* The integers lerLuminosidadePercentual may return for the sample raw with
\* the calibration rClaro, rEscuro (more than one only where the code's
\* behaviour is undefined).
Percentual(raw, rClaro, rEscuro) ==
    LET log_r_ldr    == log(Resistencia(raw))
        log_r_claro  == log(FDiv(rClaro, 1))
        log_r_escuro == log(FDiv(rEscuro, 1))
    IN  IF FGt(log_r_ldr, log_r_escuro) THEN {0}
        ELSE IF FLt(log_r_ldr, log_r_claro) THEN {100}
        ELSE IF log_r_ldr.cls = "nan" THEN NaNCastResults
        ELSE {(100 * (log_r_escuro.q - log_r_ldr.q))
                  \div (log_r_escuro.q - log_r_claro.q)}

(* ----------------------------- to_string ------------------------------ *)

Digit(d) == <<"0", "1", "2", "3", "4", "5", "6", "7", "8", "9">>[d + 1]

RECURSIVE NatString(_)
NatString(n) == IF n < 10 THEN <<Digit(n)>>
                ELSE Append(NatString(n \div 10), Digit(n % 10))

\* std::to_string(int): the decimal digits, after a "-" for a negative
\* number.  The magnitude of a negative n is split into its last digit and
\* the rest without negating n (INT_MIN has no negation).
to_string(n) ==
    IF n >= 0 THEN NatString(n)
    ELSE LET low  == (10 - (n % 10)) % 10
             rest == IF (n % 10) = 0 THEN -(n \div 10) ELSE -((n \div 10) + 1)
         IN  <<"-">> \o (IF rest = 0 THEN <<>> ELSE NatString(rest))
                     \o <<Digit(low)>>

(* ------------------------------ state --------------------------------- *)

VARIABLES
    prog,       \* which program runs: "udp" (clienteUDP_sensor_ldr.cpp) or "console" (sensor_ldr.cpp)
    pc,         \* position of main: "socket", "inet_pton", "read", "send", "sleep", "exit"
    sock,       \* client_socket: "none", "open", "closed"
    status,     \* the value main returned; 0 while it runs
    startup,    \* outcome of the startup: "pending", "ok", "socket_failed", "addr_failed"
    R_CLARO,    \* SensorLDR::R_CLARO
    R_ESCURO,   \* SensorLDR::R_ESCURO
    valor,      \* the sample lerValor returned in this cycle
    valorDef,   \* FALSE when valor was read uninitialised
    acq,        \* what the ADC file held at the read: "none" before the first read,
                \* "number", "missing" (cannot be opened), "blank" (no token), "text" (not a number)
    reported,   \* whether the read of this cycle wrote an error to cerr
    val,        \* int val of main: the percentage of this cycle
    message,    \* val_str / message of main
    datagram,   \* the payload of the last sendto call
    lastSend,   \* result of the last sendto call: "none", "ok", "fail"
    slept,      \* whether sleep(1) ran since the last sendto call
    attempts,   \* sendto calls since the last read
    adc,        \* ConvSpec: the value the driver puts in the ADC file next
    sweepHi,    \* ConvSpec: the largest percentage returned for an earlier valid sample
    sweepLo     \* ConvSpec: the smallest r_ldr computed for an earlier valid sample

vars == <<prog, pc, sock, status, startup, R_CLARO, R_ESCURO, valor, valorDef, acq,
          reported, val, message, datagram, lastSend, slept, attempts,
          adc, sweepHi, sweepLo>>

sweepVars == <<adc, sweepHi, sweepLo>>
sensorVars == <<valor, valorDef, acq, reported, val>>

RawLo == 0 - RawSlack
RawHi == ADC_MAX + RawSlack

\* The numbers the ADC file holds in Spec: both ends of every region of the
\* conversion, and values outside 0..ADC_MAX.
Samples == {RawLo, -1, 0, 1, 8, 9, 131, 262, 263, 2000,
            ADC_MAX - 1, ADC_MAX, ADC_MAX + 1, RawHi}

Number(n) == [kind |-> "number", n |-> n]
FileContents == {[kind |-> k, n |-> 0] : k \in {"missing", "blank", "text"}}
                    \cup {Number(n) : n \in Samples}

\* An int read before it was given a value holds whatever the stack held.
UninitValues == Samples

\* The calibrations the specifications start from.
Calibrations == {<<R_CLARO_INIT, R_ESCURO_INIT>>, <<R_CLARO_ALT, R_ESCURO_ALT>>}

\* Percentual of every sample the ADC file may hold, computed once.
PercentualTable ==
    [c \in Calibrations |-> [raw \in RawLo..RawHi |-> Percentual(raw, c[1], c[2])]]

(* ------------------------------ lerValor ------------------------------- *)

\* lerValor of clienteUDP_sensor_ldr.cpp: valor starts at 0; a file that
\* cannot be opened is reported on cerr; a failed extraction leaves or
\* stores 0 and is not reported.
lerValorUDP(file) ==
    IF file.kind = "number"
    THEN {[valor |-> file.n, def |-> TRUE, rep |-> FALSE]}
    ELSE {[valor |-> 0, def |-> TRUE, rep |-> (file.kind = "missing")]}

\* lerValor of sensor_ldr.cpp: valor is not initialised and nothing is
\* reported.  operator>> stores 0 when the token is not a number, and leaves
\* valor untouched when the stream is not open or holds no token.
lerValorConsole(file) ==
    CASE file.kind = "number" -> {[valor |-> file.n, def |-> TRUE, rep |-> FALSE]}
      [] file.kind = "text"   -> {[valor |-> 0, def |-> TRUE, rep |-> FALSE]}
      [] OTHER -> {[valor |-> u, def |-> FALSE, rep |-> FALSE] : u \in UninitValues}

\* int lerLuminosidadePercentual(): lerValor, then the conversion.
lerLuminosidadePercentual(reads) ==
    \E r \in reads :
        /\ valor' = r.valor
        /\ valorDef' = r.def
        /\ reported' = r.rep
        /\ val' \in PercentualTable[<<R_CLARO, R_ESCURO>>][r.valor]

(* ------------------------------ actions -------------------------------- *)

\* client_socket = socket(AF_INET, SOCK_DGRAM, 0); a failure returns -1.
CreateSocket ==
    /\ pc = "socket"
    /\ \E ok \in BOOLEAN :
        IF ok
        THEN /\ sock' = "open"
             /\ pc' = "inet_pton"
             /\ UNCHANGED <<status, startup>>
        ELSE /\ pc' = "exit"
             /\ status' = EXIT_FAILURE_STATUS
             /\ startup' = "socket_failed"
             /\ UNCHANGED sock
    /\ UNCHANGED <<prog, R_CLARO, R_ESCURO, sensorVars, message, datagram,
                   lastSend, slept, attempts, sweepVars>>

\* ConvertAddress without the close and the return of the failure branch.
ConvertAddressNoReturn ==
    /\ pc = "inet_pton"
    /\ \E ok \in BOOLEAN :
        /\ pc' = "read"
        /\ startup' = IF ok THEN "ok" ELSE "addr_failed"
        /\ UNCHANGED <<sock, status>>
    /\ UNCHANGED <<prog, R_CLARO, R_ESCURO, sensorVars, message, datagram,
                   lastSend, slept, attempts, sweepVars>>

\* inet_pton(AF_INET, SERVER_IP, ...); a failure closes the socket and
\* returns -1.
ConvertAddress ==
    /\ pc = "inet_pton"
    /\ \E ok \in BOOLEAN :
        IF ok
        THEN /\ pc' = "read"
             /\ startup' = "ok"
             /\ UNCHANGED <<sock, status>>
        ELSE /\ sock' = "closed"
             /\ pc' = "exit"
             /\ status' = EXIT_FAILURE_STATUS
             /\ startup' = "addr_failed"
    /\ UNCHANGED <<prog, R_CLARO, R_ESCURO, sensorVars, message, datagram,
                   lastSend, slept, attempts, sweepVars>>

\* The loop of the UDP client up to the sendto call: the sample is read and
\* converted and the percentage rendered as text.
ReadUDP(file) ==
    /\ prog = "udp"
    /\ pc = "read"
    /\ lerLuminosidadePercentual(lerValorUDP(file))
    /\ acq' = file.kind
    /\ message' = to_string(val')
    /\ attempts' = 0
    /\ pc' = "send"
    /\ UNCHANGED <<prog, sock, status, startup, R_CLARO, R_ESCURO, datagram,
                   lastSend, slept>>

\* SendDatagram leaving the loop when sendto fails.
SendDatagramExitOnFail ==
    /\ pc = "send"
    /\ datagram' = message
    /\ attempts' = attempts + 1
    /\ slept' = FALSE
    /\ \E bytes_sent \in {-1, Len(message)} :
        IF bytes_sent = -1
        THEN lastSend' = "fail" /\ pc' = "exit"
        ELSE lastSend' = "ok" /\ pc' = "sleep"
    /\ UNCHANGED <<prog, sock, status, startup, R_CLARO, R_ESCURO, sensorVars,
                   message, sweepVars>>

\* SendDatagram sending the same message again when sendto fails.
SendDatagramRetry ==
    /\ pc = "send"
    /\ datagram' = message
    /\ attempts' = attempts + 1
    /\ slept' = FALSE
    /\ \E bytes_sent \in {-1, Len(message)} :
        IF bytes_sent = -1
        THEN lastSend' = "fail" /\ pc' = "send"
        ELSE lastSend' = "ok" /\ pc' = "sleep"
    /\ UNCHANGED <<prog, sock, status, startup, R_CLARO, R_ESCURO, sensorVars,
                   message, sweepVars>>

\* sendto and what follows it: a failure is reported with perror and the loop
\* goes on at once; only a successful send is followed by sleep(1).
SendDatagram ==
    /\ pc = "send"
    /\ datagram' = message
    /\ attempts' = attempts + 1
    /\ slept' = FALSE
    /\ \E bytes_sent \in {-1, Len(message)} :
        IF bytes_sent = -1
        THEN lastSend' = "fail" /\ pc' = "read"
        ELSE lastSend' = "ok" /\ pc' = "sleep"
    /\ UNCHANGED <<prog, sock, status, startup, R_CLARO, R_ESCURO, sensorVars,
                   message, sweepVars>>

\* sleep(1) returns and the loop starts its next cycle.
Sleep ==
    /\ pc = "sleep"
    /\ slept' = TRUE
    /\ pc' = "read"
    /\ UNCHANGED <<prog, sock, status, startup, R_CLARO, R_ESCURO, sensorVars,
                   message, datagram, lastSend, attempts, sweepVars>>

\* The loop of the console program up to sleep(1): the sample is read,
\* converted and printed.
ConsoleCycle(file) ==
    /\ prog = "console"
    /\ pc = "read"
    /\ lerLuminosidadePercentual(lerValorConsole(file))
    /\ acq' = file.kind
    /\ pc' = "sleep"
    /\ UNCHANGED <<prog, sock, status, startup, R_CLARO, R_ESCURO, message,
                   datagram, lastSend, slept, attempts>>

(* --------------------------- specifications ---------------------------- *)

InitMain(calibrations) ==
    /\ prog \in {"udp", "console"}
    /\ pc = IF prog = "udp" THEN "socket" ELSE "read"
    /\ sock = "none"
    /\ status = 0
    /\ startup = IF prog = "udp" THEN "pending" ELSE "ok"
    /\ \E c \in calibrations : R_CLARO = c[1] /\ R_ESCURO = c[2]
    /\ valor = 0
    /\ valorDef = FALSE
    /\ acq = "none"
    /\ reported = FALSE
    /\ val = 0
    /\ message = <<>>
    /\ datagram = <<>>
    /\ lastSend = "none"
    /\ slept = FALSE
    /\ attempts = 0
    /\ adc = RawLo
    /\ sweepHi = 0
    /\ sweepLo = [cls |-> "inf", m |-> 0, e |-> 0]

\* The programs as built: the calibration of the member initialisers, and an
\* ADC file that holds anything at each read.
Init == InitMain({<<R_CLARO_INIT, R_ESCURO_INIT>>})

ReadAny ==
    /\ \E file \in FileContents : ReadUDP(file) \/ ConsoleCycle(file)
    /\ UNCHANGED sweepVars

Next ==
    \/ CreateSocket
    \/ ConvertAddress
    \/ ReadAny
    \/ SendDatagram
    \/ Sleep

Spec == Init /\ [][Next]_vars

\* The single thread of main always takes its next step: socket, inet_pton,
\* the file read, sendto and sleep(1) all return.
FairSpec == Spec /\ WF_vars(Next)

\* a <= b on positive floats (and +infinity).
FLe(a, b) ==
    \/ b.cls = "inf"
    \/ /\ a.cls = "pos"
       /\ b.cls = "pos"
       /\ (a.e < b.e \/ (a.e = b.e /\ a.m <= b.m))

IsValid(raw) == raw \in 1..(ADC_MAX - 1)

Max(a, b) == IF a >= b THEN a ELSE b

\* The driver raises the ADC value by one between two reads, from RawLo to
\* RawHi; sweepHi and sweepLo record the extremes over the valid samples
\* already converted, all of them smaller than the next one.
ReadSweep ==
    /\ adc <= RawHi
    /\ ReadUDP(Number(adc)) \/ ConsoleCycle(Number(adc))
    /\ adc' = adc + 1
    /\ IF acq = "number" /\ IsValid(valor)
       THEN /\ sweepHi' = Max(sweepHi, val)
            /\ sweepLo' = IF FLe(Resistencia(valor), sweepLo)
                          THEN Resistencia(valor) ELSE sweepLo
       ELSE UNCHANGED <<sweepHi, sweepLo>>

InitConv == InitMain(Calibrations)

NextConv ==
    \/ CreateSocket
    \/ ConvertAddress
    \/ ReadSweep
    \/ SendDatagram
    \/ Sleep

\* The programs fed every sample from RawLo to RawHi in increasing order.
ConvSpec == InitConv /\ [][NextConv]_vars

(* ------------------------------ claims --------------------------------- *)

InLoop == pc \in {"read", "send", "sleep"}

\* lerLuminosidadePercentual has just returned.
JustConverted == acq # "none" /\ pc = (IF prog = "udp" THEN "send" ELSE "sleep")

AcquisitionFailed == acq \in {"missing", "blank", "text"}

\* The decimal texts of the integers 0..100.
DecimalTexts == {to_string(k) : k \in 0..100}

\* floor and exactness of the sensor resistance R_FIXO*(ADC_MAX-raw)/raw.
ResFloor(raw) == (R_FIXO * (ADC_MAX - raw)) \div raw
ResExact(raw) == ((R_FIXO * (ADC_MAX - raw)) % raw) = 0
ResGe(raw, R) == ResFloor(raw) >= R
ResLe(raw, R) == ResFloor(raw) < R \/ (ResFloor(raw) = R /\ ResExact(raw))

\* C1: in the UDP loop there is a sleep between any two consecutive send
\* attempts: whenever a send is about to be attempted and an earlier attempt
\* was made, sleep(1) has run since that attempt.
C1_SleepBetweenSends ==
    (prog = "udp" /\ pc = "send" /\ lastSend # "none") => slept

\* C2: once in the loop the process never leaves it, after a failed
\* acquisition or a failed send the next read is always reached, and every
\* read is followed by a conversion.
C2_LoopLives ==
    /\ [][InLoop => InLoop']_vars
    /\ (InLoop /\ (AcquisitionFailed \/ lastSend = "fail")) ~> (pc = "read")
    /\ (pc = "read") ~> JustConverted

\* A failed send of a cycle whose acquisition failed too was followed by the
\* next read and conversion.
C2_Witness ==
    /\ prog = "udp"
    /\ lastSend = "fail"
    /\ AcquisitionFailed
    /\ JustConverted

\* C3: when the acquisition fails, the failure is reported, the sample used
\* is a defined one, the process stays in the loop and what is sent is the
\* text of an integer in 0..100.
C3_AcquisitionFailureHandled ==
    AcquisitionFailed =>
        /\ reported
        /\ valorDef
        /\ InLoop
        /\ val \in 0..100
        /\ (attempts > 0 => datagram \in DecimalTexts)

\* C4: every payload handed to sendto is the decimal text of an integer in
\* 0..100, whatever integer the ADC file held.
C4_PayloadInRange == (lastSend # "none") => datagram \in DecimalTexts

\* C5: for a sample in 1..ADC_MAX-1 lerLuminosidadePercentual returns an
\* integer in 0..100, and it is the only result the conversion has for that
\* sample.
C5_ValidRange ==
    (JustConverted /\ acq = "number" /\ IsValid(valor)) =>
        /\ val \in 0..100
        /\ Percentual(valor, R_CLARO, R_ESCURO) = {val}

\* The boundary sample ADC_MAX-1 was converted, with the built-in calibration.
C5_Witness ==
    /\ JustConverted
    /\ acq = "number"
    /\ valor = ADC_MAX - 1
    /\ val = 100
    /\ R_CLARO = R_CLARO_INIT
    /\ R_ESCURO = R_ESCURO_INIT

\* C6: for the samples 0 and ADC_MAX the conversion has exactly one result,
\* and it is 0 or 100.
C6_EdgeSamples ==
    (acq # "none" /\ valor \in {0, ADC_MAX}) =>
        /\ val \in {0, 100}
        /\ Percentual(valor, R_CLARO, R_ESCURO) = {val}

\* The ADC file held 0 and the conversion returned 0.
C6_Witness == JustConverted /\ acq = "number" /\ valor = 0 /\ val = 0

\* C7: a sample of 1..ADC_MAX whose resistance is at least R_ESCURO gives 0,
\* and one whose resistance is at most R_CLARO gives 100.
C7_Clamping ==
    (JustConverted /\ acq = "number" /\ valor \in 1..ADC_MAX) =>
        /\ ResGe(valor, R_ESCURO) => val = 0
        /\ ResLe(valor, R_CLARO) => val = 100

\* The resistance of the sample equals R_ESCURO exactly, and the result is 0.
C7_Witness ==
    /\ JustConverted
    /\ acq = "number"
    /\ valor \in 1..ADC_MAX
    /\ ResFloor(valor) = R_ESCURO
    /\ ResExact(valor)
    /\ val = 0

\* C8: the percentage of a valid sample is at least the percentage of every
\* smaller valid sample, and its resistance at most the resistance of every
\* smaller valid sample.
C8_Monotonic ==
    (JustConverted /\ acq = "number" /\ IsValid(valor)) =>
        /\ val >= sweepHi
        /\ FLe(Resistencia(valor), sweepLo)

\* The first sample clamped to 100 follows samples interpolated up to 99.
C8_Witness ==
    /\ JustConverted
    /\ acq = "number"
    /\ IsValid(valor)
    /\ R_CLARO = R_CLARO_INIT
    /\ R_ESCURO = R_ESCURO_INIT
    /\ sweepHi = 99
    /\ val = 100
    /\ sweepLo.cls = "pos"

\* C9: after a failed socket or inet_pton call the process has terminated
\* with an error status, nothing was read or sent and nothing more happens;
\* after a failed inet_pton the socket is closed.
C9_StartupFatal ==
    /\ startup \in {"socket_failed", "addr_failed"} =>
          /\ pc = "exit"
          /\ status # 0
          /\ acq = "none"
          /\ lastSend = "none"
          /\ ~ ENABLED Next
    /\ startup = "addr_failed" => sock = "closed"
    /\ pc = "exit" => startup \in {"socket_failed", "addr_failed"}

\* inet_pton failed: the socket is closed and main has returned -1.
C9_Witness ==
    /\ startup = "addr_failed"
    /\ pc = "exit"
    /\ sock = "closed"
    /\ status = EXIT_FAILURE_STATUS

\* C10: in the UDP loop a send is attempted only on a sample no send was
\* attempted on, at most one send is attempted per sample, and the payload is
\* the text of the percentage of the sample read in the same cycle.
C10_LatestSampleOnly ==
    prog = "udp" =>
        /\ attempts <= 1
        /\ pc = "send" =>
              /\ attempts = 0
              /\ message = to_string(val)
              /\ val \in Percentual(valor, R_CLARO, R_ESCURO)
        /\ attempts = 1 =>
              /\ datagram = to_string(val)
              /\ val \in Percentual(valor, R_CLARO, R_ESCURO)

\* A send failed, and the next send attempt carries another sample's
\* percentage.
C10_Witness ==
    /\ prog = "udp"
    /\ pc = "send"
    /\ lastSend = "fail"
    /\ attempts = 0
    /\ message # datagram

=============================================================================
